---- MODULE Spec2Model ----
(***************************************************************************)
(* The Bokun OAuth install handshake of NocodeSolutions/oauth: the HMAC    *)
(* verifier, the in-memory session store and the /install and /callback    *)
(* handlers, in the two variants of the program (src/app.js and            *)
(* src/unnamed/part_000).                                                  *)
(*                                                                         *)
(* JavaScript strings are TLA+ strings (TLC concatenates them with \o and  *)
(* cuts them with SubSeq).  A JavaScript object built from a query string  *)
(* is a sequence of <<key, value>> pairs with distinct keys, in insertion  *)
(* order.  The value undefined is the string Undefined, which no input of  *)
(* the model equals.                                                       *)
(***************************************************************************)
EXTENDS Integers, Sequences, FiniteSets, Bags, TLC

VARIABLES
    variant,    \* which program is deployed: "app" (src/app.js) or "part000"
    sessions,   \* the sessions object: own keys (nonces) -> {user, domain, timestamp}
    issued,     \* nonces drawn from crypto.randomBytes so far, with what was stored
    pending,    \* the /callback handlers suspended at an await: a bag of their locals
    last,       \* the step taken last: what it read, called and answered
    vquery,     \* verifier on its own: the query handed to verifyHmac
    vsecret,    \* verifier on its own: the secret the query is signed with
    vkey,       \* verifier on its own: the secret verifyHmac is called with
    vstage,     \* verifier on its own: "unsigned", "signed", then "tampered" or
                \* "permuted" ("idle": not in use)
    vresult     \* verifier on its own: "true" or "false" as verifyHmac returned, "none" before

vars == <<variant, sessions, issued, pending, last, vquery, vsecret, vkey, vstage, vresult>>

serverVars == <<variant, sessions, issued, pending, last>>
verifierVars == <<vquery, vsecret, vkey, vstage, vresult>>

-----------------------------------------------------------------------------
(* Bounds of the model.                                                    *)

\* /install requests accepted in a run.
MaxInstalls == 2
\* /callback handlers suspended at an await at a time.
MaxCallbacks == 2
\* Parameters of a query handed to the verifier on its own.
MaxParams == 2

-----------------------------------------------------------------------------
(* Configuration (the defaults the code falls back to).                    *)

API_KEY == "YOUR_API_KEY"
CLIENT_SECRET == "YOUR_CLIENT_SECRET"
SCOPES == "PRODUCTS_MANAGE,BOOKINGS_CREATE"
REDIRECT_URI == "https://your-render-app-url.com/callback"
BOKUN_HOST == "bokun.io"
WEBHOOK_URL == "https://webhook.site/054f59c1-a4f2-493b-b21c-c2c95527df19"

Variants == {"app", "part000"}

-----------------------------------------------------------------------------
(* JavaScript values.                                                      *)

Undefined == "<undefined>"

\* Template-literal interpolation `${v}` of a string or undefined.
ToStr(v) == IF v = Undefined THEN "undefined" ELSE v

\* Truthiness of a string, an object or undefined.
Truthy(v) == v # Undefined /\ v # ""

\* The printable ASCII characters in code order: codes 32..95 and 97..126
\* (code 96, the grave accent, cannot be written in a TLA+ string and is in no
\* string of the model).
PrintableLow == " !\"#$%&'()*+,-./0123456789:;<=>?@ABCDEFGHIJKLMNOPQRSTUVWXYZ[\\]^_"
PrintableHigh == "abcdefghijklmnopqrstuvwxyz{|}~"

CharAt(s, i) == SubSeq(s, i, i)

IndexIn(s, c) == CHOOSE i \in 1..Len(s) : CharAt(s, i) = c

\* Whether sub occurs in s.
Contains(s, sub) ==
    \E i \in 1..(Len(s) - Len(sub) + 1) : SubSeq(s, i, i + Len(sub) - 1) = sub

\* The UTF-16 code unit of a one-character string.
CharCode(c) ==
    IF Contains(PrintableHigh, c) THEN 96 + IndexIn(PrintableHigh, c)
    ELSE 31 + IndexIn(PrintableLow, c)

\* a < b in the order Array.prototype.sort() uses without a comparator:
\* by code units, a proper prefix first.
StrLess(a, b) ==
    LET n == IF Len(a) < Len(b) THEN Len(a) ELSE Len(b)
        diff == {i \in 1..n : CharAt(a, i) # CharAt(b, i)}
    IN  IF diff = {}
        THEN Len(a) < Len(b)
        ELSE LET i == CHOOSE j \in diff : \A k \in diff : j <= k
             IN  CharCode(CharAt(a, i)) < CharCode(CharAt(b, i))

\* obj[key] on an object given as <<key, value>> pairs.
Get(obj, key) ==
    IF \E i \in 1..Len(obj) : obj[i][1] = key
    THEN obj[CHOOSE i \in 1..Len(obj) : obj[i][1] = key][2]
    ELSE Undefined

\* Object.keys(obj): the keys in insertion order.
ObjectKeys(obj) == [i \in 1..Len(obj) |-> obj[i][1]]

\* The rest pattern `{ hmac: providedHmac, ...params }`: obj without the key.
RECURSIVE RestWithout(_, _)
RestWithout(obj, key) ==
    IF obj = <<>> THEN <<>>
    ELSE IF Head(obj)[1] = key THEN RestWithout(Tail(obj), key)
    ELSE <<Head(obj)>> \o RestWithout(Tail(obj), key)

RECURSIVE InsertSorted(_, _)
InsertSorted(sorted, k) ==
    IF sorted = <<>> THEN <<k>>
    ELSE IF StrLess(k, Head(sorted)) THEN <<k>> \o sorted
    ELSE <<Head(sorted)>> \o InsertSorted(Tail(sorted), k)

\* Array.prototype.sort() on an array of strings.
RECURSIVE Sort(_)
Sort(keys) ==
    IF keys = <<>> THEN <<>> ELSE InsertSorted(Sort(Tail(keys)), Head(keys))

\* Array.prototype.join(sep) on an array of strings.
RECURSIVE Join(_, _)
Join(parts, sep) ==
    IF parts = <<>> THEN ""
    ELSE IF Len(parts) = 1 THEN Head(parts)
    ELSE Head(parts) \o sep \o Join(Tail(parts), sep)

Hex == "0123456789ABCDEF"

\* encodeURIComponent on printable ASCII: everything but A-Z a-z 0-9 - _ . ! ~ * ' ( )
\* becomes %XX.
UriUnreserved == "ABCDEFGHIJKLMNOPQRSTUVWXYZabcdefghijklmnopqrstuvwxyz0123456789-_.!~*'()"

EncodeChar(c) ==
    IF Contains(UriUnreserved, c) THEN c
    ELSE "%" \o CharAt(Hex, (CharCode(c) \div 16) + 1) \o CharAt(Hex, (CharCode(c) % 16) + 1)

RECURSIVE encodeURIComponent(_)
encodeURIComponent(s) ==
    IF s = "" THEN "" ELSE EncodeChar(CharAt(s, 1)) \o encodeURIComponent(SubSeq(s, 2, Len(s)))

-----------------------------------------------------------------------------
(* verifyHmac.                                                             *)

\* crypto.createHmac('sha256', secret).update(message).digest('hex'), taken as
\* collision-free: the digest names its secret and its message.  No secret of the
\* model contains ":".
HmacSha256Hex(secret, msg) == "hmac-sha256:" \o secret \o ":" \o msg

providedHmac(query) == Get(query, "hmac")

params(query) == RestWithout(query, "hmac")

\* Mutant: the keys are left in insertion order.
sortedKeys_unsorted(query) == ObjectKeys(params(query))

sortedKeys(query) == Sort(ObjectKeys(params(query)))

\* Mutant: the message is the sorted keys, without their values.
message_keysOnly(query) == Join(sortedKeys(query), "&")

message(query) ==
    LET ks == sortedKeys(query)
    IN  Join([i \in 1..Len(ks) |-> ks[i] \o "=" \o ToStr(Get(params(query), ks[i]))], "&")

\* Mutant: the digest is keyed with the configured secret, not with the argument.
computedHmac_ignoresSecret(query, secret) == HmacSha256Hex("YOUR_CLIENT_SECRET", message(query))

computedHmac(query, secret) == HmacSha256Hex(secret, message(query))

verifyHmac(query, secret) == computedHmac(query, secret) = providedHmac(query)


-----------------------------------------------------------------------------
(* The requests and replies the model draws from.                          *)

\* The vendor that installs, and the domains a callback may name.
InstallDomains == {"acme"}
CallbackDomains == {"acme", "beta"}
User == "3413"
Timestamp == "1739870000"
AuthCode == "c0de"

\* A secret other than CLIENT_SECRET.
OtherSecret == "SOME_OTHER_SECRET"
Secrets == {CLIENT_SECRET, OtherSecret}

\* crypto.randomBytes(16).toString('hex'): 32 hex digits.  The n-th draw differs
\* from every earlier one (128 random bits: a collision is not modelled).
NonceOf(n) == "9f2c4e6a8b0d1f3557799bbddff0011" \o CharAt("0123456789abcdef", n)

\* A nonce /install never stores.
UnknownNonce == "00000000000000000000000000000000"

\* The signature a holder of the secret computes over the parameters.
sign(ps, secret) == HmacSha256Hex(secret, message(ps))

\* A request with the parameters: unsigned, signed by a holder of CLIENT_SECRET,
\* signed with another secret.  sig says which.
Signings(ps) ==
    {[query |-> ps, sig |-> "missing"],
     [query |-> Append(ps, <<"hmac", sign(ps, CLIENT_SECRET)>>), sig |-> "valid"],
     [query |-> Append(ps, <<"hmac", sign(ps, OtherSecret)>>), sig |-> "invalid"]}

InstallParams ==
    {<<<<"domain", d>>, <<"user", User>>, <<"timestamp", Timestamp>>>> : d \in InstallDomains}

InstallRequests == UNION {Signings(ps) : ps \in InstallParams}

NonceValues == {NonceOf(n) : n \in 1..MaxInstalls} \cup {UnknownNonce, "constructor"}

\* Callbacks as each variant expects them (nonce and authorization_code, or state
\* and code), and without the nonce field.
CallbackParams ==
    {<<<<"domain", d>>, <<"nonce", n>>, <<"timestamp", Timestamp>>, <<"authorization_code", AuthCode>>>> :
        d \in CallbackDomains, n \in NonceValues}
    \cup
    {<<<<"domain", d>>, <<"state", n>>, <<"timestamp", Timestamp>>, <<"code", AuthCode>>>> :
        d \in CallbackDomains, n \in NonceValues}
    \cup
    {<<<<"domain", d>>, <<"timestamp", Timestamp>>, <<"code", AuthCode>>>> : d \in CallbackDomains}

CallbackRequests == UNION {Signings(ps) : ps \in CallbackParams}

\* What the token endpoint answers with a 2xx status.
TokenResponses ==
    {[access_token |-> "tok123", scope |-> "PRODUCTS_MANAGE", vendor_id |-> "v1"]}

\* verifyHmac(query, CLIENT_SECRET) for every request of the model, evaluated once.
verifyHmacWithClientSecret ==
    [query \in {request.query : request \in InstallRequests \cup CallbackRequests} |->
        verifyHmac(query, CLIENT_SECRET)]

-----------------------------------------------------------------------------
(* The sessions object.                                                    *)

\* What a property read yields when there is no such property.
NoEntry == [type |-> "undefined"]

\* A function inherited from Object.prototype (sessions is created as {}).
InheritedFunction == [type |-> "function"]

\* Names every object created as {} inherits from Object.prototype.
ObjectPrototypeKeys == {"constructor", "toString", "valueOf", "hasOwnProperty", "__proto__"}

\* sessions[key]: an own property, else an inherited one, else undefined.
sessionsGet(sess, key) ==
    IF key \in DOMAIN sess THEN sess[key]
    ELSE IF key \in ObjectPrototypeKeys THEN InheritedFunction
    ELSE NoEntry

\* Mutant: the assignment replaces the object instead of adding a property.
sessionsPut_replacesStore(sess, key, ctx) == [k \in {key} |-> ctx]

\* sessions[nonce] = ctx
sessionsPut(sess, key, ctx) == [k \in DOMAIN sess \cup {key} |-> IF k = key THEN ctx ELSE sess[k]]

\* delete sessions[nonce]: removes an own property, if there is one.
sessionsDelete(sess, key) == [k \in DOMAIN sess \ {key} |-> sess[k]]

\* obj.name on a record: undefined when the object has no such property.
Field(obj, name) == IF name \in DOMAIN obj THEN obj[name] ELSE Undefined

-----------------------------------------------------------------------------
(* What a step leaves in `last`.                                           *)

NoCall == [url |-> Undefined]
NoData == [type |-> "none"]

\* op: "none", "install", "callback" (the handler up to its first await),
\* "exchanged" (from the token request's completion), "persisted" (from the
\* webhook post's completion).  What came in: the query (install), how the
\* request was signed (install, callback), whether the awaited call succeeded
\* (exchanged, persisted).  The rest is
\* what the handler did: the nonce it read or drew, whether it called verifyHmac
\* in this step and with what result (hmacCheck: "none", "passed", "failed"), its
\* response (status 0: none yet, the handler awaits), the token request it sent,
\* the token data it received and the record it posted to the webhook.
NoStep ==
    [op |-> "none", query |-> <<>>, sig |-> "none", ok |-> TRUE, nonce |-> Undefined,
     hmacCheck |-> "none", status |-> 0,
     kind |-> "none", body |-> "", call |-> NoCall, tokenData |-> NoData, post |-> NoData]

-----------------------------------------------------------------------------
(* /install                                                                *)

\* encodeURIComponent(SCOPES) and encodeURIComponent(REDIRECT_URI), evaluated once.
encodedScopes == encodeURIComponent(SCOPES)
encodedRedirectUri == encodeURIComponent(REDIRECT_URI)

authUrl(domain, nonce) ==
    "https://" \o ToStr(domain) \o "." \o BOKUN_HOST \o "/appstore/oauth/authorize?client_id=" \o API_KEY
        \o "&scope=" \o encodedScopes
        \o "&redirect_uri=" \o encodedRedirectUri
        \o "&state=" \o nonce

\* The interstitial page of part_000 (its markup shortened to the script).
html(url) ==
    "<script>setTimeout(function() { window.location.href = \"" \o url \o "\"; }, 1000);</script>"

InvalidInstallBody == "Invalid HMAC on install request"

\* The context stored under the nonce.
installContext(query) ==
    [user |-> Get(query, "user"), domain |-> Get(query, "domain"),
     timestamp |-> Get(query, "timestamp")]

\* The response of /install to a query that verified: a redirect (app.js) or a
\* page that redirects (part_000).
installResponse(v, query, nonce) ==
    IF v = "app"
    THEN [NoStep EXCEPT !.op = "install", !.query = query, !.nonce = nonce,
                        !.hmacCheck = "passed", !.status = 302,
                        !.kind = "redirect", !.body = authUrl(Get(query, "domain"), nonce)]
    ELSE [NoStep EXCEPT !.op = "install", !.query = query, !.nonce = nonce,
                        !.hmacCheck = "passed", !.status = 200,
                        !.kind = "html", !.body = html(authUrl(Get(query, "domain"), nonce))]

installRejected(query) ==
    [NoStep EXCEPT !.op = "install", !.query = query, !.hmacCheck = "failed", !.status = 400,
                   !.kind = "text", !.body = InvalidInstallBody]

\* Mutant: a request without the hmac field is let through.
installAccepts_whenUnsigned(query) ==
    providedHmac(query) = Undefined \/ verifyHmacWithClientSecret[query]

\* Whether /install goes on to store a session.
installAccepts(query) == verifyHmacWithClientSecret[query]

\* The sessions object after /install.
installSessions(sess, query, nonce) ==
    IF installAccepts(query) THEN sessionsPut(sess, nonce, installContext(query)) ELSE sess

\* What the nonce generator has handed out.
installIssued(iss, query) ==
    IF installAccepts(query) THEN Append(iss, installContext(query)) ELSE iss

\* What /install did and answered.
installStep(v, query, nonce) ==
    IF installAccepts(query) THEN installResponse(v, query, nonce) ELSE installRejected(query)

Install(request) ==
    /\ sessions' = installSessions(sessions, request.query, NonceOf(Len(issued) + 1))
    /\ issued' = installIssued(issued, request.query)
    /\ last' = [installStep(variant, request.query, NonceOf(Len(issued) + 1))
                   EXCEPT !.sig = request.sig]
    /\ UNCHANGED <<variant, pending>>
    /\ UNCHANGED verifierVars

-----------------------------------------------------------------------------
(* /callback                                                               *)

\* The query field the handler reads the nonce from.
nonceField(v) == IF v = "app" THEN "nonce" ELSE "state"

\* The query field the handler reads the authorization code from.
codeField(v) == IF v = "app" THEN "authorization_code" ELSE "code"

MissingNonceBody(v) == IF v = "app" THEN "Invalid or missing nonce" ELSE "Invalid or missing nonce/state"
InvalidCallbackBody == "Invalid HMAC on callback request"
ExchangeErrorBody == "Error exchanging authorization code for access token"
InstalledBody == "App successfully installed and data stored!"

tokenUrl(domain) == "https://" \o ToStr(domain) \o "." \o BOKUN_HOST \o "/appstore/oauth/access_token"

\* The check `!nonce || !sessions[nonce]` does not reject: the handler goes on.
nonceKnown(sess, nonce) == Truthy(nonce) /\ sessionsGet(sess, nonce) # NoEntry

\* The check of the callback's signature.
callbackVerifies(query) == verifyHmacWithClientSecret[query]

\* The token request: its URL and its body.
exchangeCall(v, query) ==
    [url |-> tokenUrl(Get(query, "domain")), client_id |-> API_KEY,
     client_secret |-> CLIENT_SECRET, code |-> Get(query, codeField(v))]

\* The handler up to its first await: a 400, or the token request is sent.
callbackEntry(v, sess, query) ==
    LET nonce == Get(query, nonceField(v))
    IN  IF ~nonceKnown(sess, nonce)
        THEN [NoStep EXCEPT !.op = "callback", !.nonce = nonce, !.status = 400,
                            !.kind = "text", !.body = MissingNonceBody(v)]
        ELSE IF ~callbackVerifies(query)
        THEN [NoStep EXCEPT !.op = "callback", !.nonce = nonce, !.hmacCheck = "failed",
                            !.status = 400, !.kind = "text", !.body = InvalidCallbackBody]
        ELSE [NoStep EXCEPT !.op = "callback", !.nonce = nonce, !.hmacCheck = "passed",
                            !.call = exchangeCall(v, query)]

\* A handler suspended at `await axios.post(tokenUrl, ...)`: of its locals, those
\* it reads when it resumes.
awaitingExchange(step) ==
    [pc |-> "exchange", nonce |-> step.nonce, tokenUrl |-> step.call.url,
     tokenData |-> NoData, storeData |-> NoData]

Suspended(step) == step.status = 0

CallbackStart(request) ==
    LET step == callbackEntry(variant, sessions, request.query)
    IN  /\ last' = [step EXCEPT !.sig = request.sig]
        /\ pending' = IF Suspended(step)
                      THEN pending (+) SetToBag({awaitingExchange(step)})
                      ELSE pending
        /\ UNCHANGED <<variant, sessions, issued>>
        /\ UNCHANGED verifierVars

\* Mutant: scope is filled from the access token.
storeData_scopeFromAccessToken(sessionData, nonce, tokenData) ==
    [user |-> Field(sessionData, "user"), domain |-> Field(sessionData, "domain"),
     nonce |-> nonce, access_token |-> Field(tokenData, "access_token"),
     scope |-> Field(tokenData, "access_token"), vendor_id |-> Field(tokenData, "vendor_id")]

\* The record posted to the webhook.
storeData(sessionData, nonce, tokenData) ==
    [user |-> Field(sessionData, "user"), domain |-> Field(sessionData, "domain"),
     nonce |-> nonce, access_token |-> Field(tokenData, "access_token"),
     scope |-> Field(tokenData, "scope"), vendor_id |-> Field(tokenData, "vendor_id")]

\* The catch block.
caught(op, req, data) ==
    [NoStep EXCEPT !.op = op, !.nonce = req.nonce, !.status = 500, !.kind = "text",
                   !.body = ExchangeErrorBody, !.tokenData = data, !.post = req.storeData]

\* Mutant: a failed token request is not caught; the handler goes on and posts.
afterExchange_postsAnyway(req, sess, ok, data) ==
    LET sessionData == sessionsGet(sess, req.nonce)
    IN  IF sessionData = NoEntry
        THEN caught("exchanged", req, data)
        ELSE [NoStep EXCEPT !.op = "exchanged", !.nonce = req.nonce, !.tokenData = data,
                            !.post = storeData(sessionData, req.nonce, data)]

\* The handler from the token request's completion: into the catch block when the
\* request failed or when sessionData.user throws (sessions[nonce] is undefined),
\* else the record is posted to the webhook.
afterExchange(req, sess, ok, data) ==
    IF ~ok THEN caught("exchanged", req, NoData)
    ELSE LET sessionData == sessionsGet(sess, req.nonce)
         IN  IF sessionData = NoEntry
             THEN caught("exchanged", req, data)
             ELSE [NoStep EXCEPT !.op = "exchanged", !.nonce = req.nonce, !.tokenData = data,
                                 !.post = storeData(sessionData, req.nonce, data)]

\* A handler suspended at `await axios.post('https://webhook.site/...', storeData)`.
awaitingPersist(req, step) ==
    [req EXCEPT !.pc = "persist", !.tokenData = step.tokenData, !.storeData = step.post]

ExchangeReturn(req, ok, data) ==
    LET step == afterExchange(req, sessions, ok, data)
    IN  /\ req.pc = "exchange"
        /\ last' = [step EXCEPT !.ok = ok]
        /\ pending' = IF Suspended(step)
                      THEN (pending (-) SetToBag({req})) (+) SetToBag({awaitingPersist(req, step)})
                      ELSE pending (-) SetToBag({req})
        /\ UNCHANGED <<variant, sessions, issued>>
        /\ UNCHANGED verifierVars

\* The handler from the webhook post's completion to its response.
afterPersist(req, ok) ==
    IF ~ok THEN caught("persisted", req, req.tokenData)
    ELSE [NoStep EXCEPT !.op = "persisted", !.nonce = req.nonce, !.status = 200,
                        !.kind = "text", !.body = InstalledBody,
                        !.tokenData = req.tokenData, !.post = req.storeData]

\* The sessions object once the webhook post has completed.
sessionsAfterPersist(sess, req, ok) ==
    IF ok THEN sessionsDelete(sess, req.nonce) ELSE sess

PersistReturn(req, ok) ==
    /\ req.pc = "persist"
    /\ last' = [afterPersist(req, ok) EXCEPT !.ok = ok]
    /\ sessions' = sessionsAfterPersist(sessions, req, ok)
    /\ pending' = pending (-) SetToBag({req})
    /\ UNCHANGED <<variant, issued>>
    /\ UNCHANGED verifierVars

-----------------------------------------------------------------------------
(* The server.                                                             *)

VerifierIdle ==
    /\ vquery = <<>>
    /\ vsecret = ""
    /\ vkey = ""
    /\ vstage = "idle"
    /\ vresult = "none"

Init ==
    /\ variant \in Variants
    /\ sessions = [k \in {} |-> NoEntry]
    /\ issued = <<>>
    /\ pending = EmptyBag
    /\ last = NoStep
    /\ VerifierIdle

IssuedNonces == {NonceOf(n) : n \in 1..Len(issued)}

Next ==
    \/ /\ Len(issued) < MaxInstalls
       /\ \E request \in InstallRequests : Install(request)
    \/ /\ BagCardinality(pending) < MaxCallbacks
       /\ \E request \in CallbackRequests : CallbackStart(request)
    \/ \E req \in BagToSet(pending) : ExchangeReturn(req, FALSE, NoData)
    \/ \E req \in BagToSet(pending) : \E data \in TokenResponses : ExchangeReturn(req, TRUE, data)
    \/ \E req \in BagToSet(pending) : \E ok \in BOOLEAN : PersistReturn(req, ok)

Spec == Init /\ [][Next]_vars

-----------------------------------------------------------------------------
(* The verifier on its own: a parameter set is signed with one secret and  *)
(* verifyHmac is called on it with another, or the same.                   *)

VerifierKeys == {"domain", "user", "state", "code"}
VerifierValues == {"acme", "a=1&b=2", ""}

\* The objects of at most n parameters, in every insertion order.
RECURSIVE ParamObjects(_)
ParamObjects(n) ==
    IF n = 0 THEN {<<>>}
    ELSE LET smaller == ParamObjects(n - 1)
         IN  smaller \cup
             {Append(obj, <<k, val>>) :
                 obj \in {o \in smaller : Len(o) = n - 1},
                 k \in VerifierKeys, val \in VerifierValues}

DistinctKeys(obj) == \A i, j \in 1..Len(obj) : obj[i][1] = obj[j][1] => i = j

VerifierParams == {obj \in ParamObjects(MaxParams) : DistinctKeys(obj)}

InitVerify ==
    /\ variant = "app"
    /\ sessions = [k \in {} |-> NoEntry]
    /\ issued = <<>>
    /\ pending = EmptyBag
    /\ last = NoStep
    /\ vquery \in VerifierParams
    /\ vsecret \in Secrets
    /\ vkey \in Secrets
    /\ vstage = "unsigned"
    /\ vresult = "none"

\* The holder of vsecret signs the parameters and adds the signature as hmac.
VerifierSign ==
    /\ vstage = "unsigned"
    /\ vresult = "none"
    /\ vquery' = Append(vquery, <<"hmac", sign(vquery, vsecret)>>)
    /\ vstage' = "signed"
    /\ UNCHANGED <<vsecret, vkey, vresult>>
    /\ UNCHANGED serverVars

\* verifyHmac(query, secret) is called.
VerifierCall ==
    /\ vresult = "none"
    /\ vresult' = IF verifyHmac(vquery, vkey) THEN "true" ELSE "false"
    /\ UNCHANGED <<vquery, vsecret, vkey, vstage>>
    /\ UNCHANGED serverVars

\* obj without its i-th property.
WithoutProperty(obj, i) == SubSeq(obj, 1, i - 1) \o SubSeq(obj, i + 1, Len(obj))

\* obj with another value for its i-th property.
WithValue(obj, i, val) == [obj EXCEPT ![i] = <<obj[i][1], val>>]

\* The same properties in the insertion order p (a permutation of the positions).
Reordered(obj, p) == [i \in DOMAIN obj |-> obj[p[i]]]

PermutationsOf(positions) ==
    {p \in [positions -> positions] : \A i, j \in positions : p[i] = p[j] => i = j}

\* Between signing and verification one parameter other than hmac is removed, or
\* its value is changed; the signature stays.
VerifierTamper ==
    /\ vstage = "signed"
    /\ vresult = "none"
    /\ \E i \in 1..Len(vquery) :
          /\ vquery[i][1] # "hmac"
          /\ \/ vquery' = WithoutProperty(vquery, i)
             \/ \E val \in VerifierValues \ {vquery[i][2]} : vquery' = WithValue(vquery, i, val)
    /\ vstage' = "tampered"
    /\ UNCHANGED <<vsecret, vkey, vresult>>
    /\ UNCHANGED serverVars

\* Between signing and verification the parameters (hmac among them) arrive in
\* another insertion order.
VerifierPermute ==
    /\ vstage = "signed"
    /\ vresult = "none"
    /\ \E p \in PermutationsOf(DOMAIN vquery) :
          /\ Reordered(vquery, p) # vquery
          /\ vquery' = Reordered(vquery, p)
    /\ vstage' = "permuted"
    /\ UNCHANGED <<vsecret, vkey, vresult>>
    /\ UNCHANGED serverVars

NextVerify ==
    \/ VerifierSign
    \/ VerifierTamper
    \/ VerifierPermute
    \/ VerifierCall

SpecVerify == InitVerify /\ [][NextVerify]_vars

-----------------------------------------------------------------------------
(* Vocabulary of the properties.                                           *)

\* The position of an issued nonce among the draws.
NonceIndex(nonce) == CHOOSE n \in 1..Len(issued) : NonceOf(n) = nonce

RECURSIVE CopiesOfAll(_, _)
CopiesOfAll(bag, elems) ==
    IF elems = {} THEN 0
    ELSE LET e == CHOOSE x \in elems : TRUE
         IN  CopiesIn(e, bag) + CopiesOfAll(bag, elems \ {e})

\* How many handlers that passed the nonce check for this nonce are suspended.
PendingFor(nonce) == CopiesOfAll(pending, {req \in BagToSet(pending) : req.nonce = nonce})

\* The 400 of the nonce check.
UnknownNonceReply(step) == step.status = 400 /\ step.body = MissingNonceBody(variant)

\* The step taken last ended a /callback whose nonce check had found the nonce
\* in the store.
LastEndedCallbackThatFound(nonce) ==
    /\ last.op \in {"callback", "exchanged", "persisted"}
    /\ last.status # 0
    /\ last.nonce = nonce
    /\ nonce \in IssuedNonces
    /\ ~UnknownNonceReply(last)

-----------------------------------------------------------------------------
(* C1..C10                                                                 *)

\* C1: of the /callback requests that run concurrently with one nonce of the
\* store, at most one passes the nonce check and goes on to the token exchange:
\* no two handlers are suspended at an await for the same issued nonce.
C1_AtMostOnePassesLookup == \A nonce \in IssuedNonces : PendingFor(nonce) <= 1

\* C2: once a /callback has found a nonce in the store, whatever its outcome,
\* a later /callback presenting that nonce is answered 400 by the nonce check.
C2_NoReentryOnceFound ==
    [][\A nonce \in IssuedNonces :
          (LastEndedCallbackThatFound(nonce) /\ last'.op = "callback" /\ last'.nonce = nonce)
              => UnknownNonceReply(last')]_vars

\* C3: a /callback that presents a nonce of the store with a signature that does
\* not verify is answered 400 and the nonce is not left in the store.
C3_BadSignatureConsumesNonce ==
    [][(last'.op = "callback" /\ last'.sig # "valid" /\ last'.nonce \in DOMAIN sessions)
          => (last'.status = 400 /\ last'.nonce \notin DOMAIN sessions')]_vars

\* C4: when the token exchange of a /callback fails, the response is 500 and
\* nothing is posted to the webhook for that request.
C4_ExchangeFailureIs500WithoutPersist ==
    (last.op = "exchanged" /\ ~last.ok) => (last.status = 500 /\ last.post = NoData)

C4_Witness ==
    /\ last.op = "exchanged"
    /\ ~last.ok
    /\ last.nonce \in IssuedNonces
    /\ last.status = 500

\* C5: after a /callback whose token exchange failed, its nonce is no longer in
\* the store.
C5_ExchangeFailureConsumesNonce ==
    (last.op = "exchanged" /\ ~last.ok /\ last.nonce \in IssuedNonces)
        => (last.status = 500 /\ last.nonce \notin DOMAIN sessions)

\* C6: when the token exchange and the webhook post of a /callback for an issued
\* nonce both succeed, the response is 200 and the record posted holds the user
\* and domain stored by /install under that nonce, the nonce, and the
\* access_token, scope and vendor_id the token endpoint returned.
C6_PersistedRecord ==
    (last.op = "persisted" /\ last.ok /\ last.nonce \in IssuedNonces)
        => /\ last.status = 200
           /\ last.tokenData \in TokenResponses
           /\ last.post = [user |-> issued[NonceIndex(last.nonce)].user,
                           domain |-> issued[NonceIndex(last.nonce)].domain,
                           nonce |-> last.nonce,
                           access_token |-> last.tokenData.access_token,
                           scope |-> last.tokenData.scope,
                           vendor_id |-> last.tokenData.vendor_id]

C6_Witness ==
    /\ last.op = "persisted"
    /\ last.ok
    /\ last.nonce \in IssuedNonces
    /\ last.status = 200
    /\ last.post # NoData

\* C7: an /install whose signature does not verify (wrong or missing) is answered
\* 400, draws no nonce and leaves the store as it was.
C7_BadInstallChangesNothing ==
    [][(last'.op = "install" /\ last'.sig # "valid")
          => (last'.status = 400 /\ sessions' = sessions /\ issued' = issued)]_vars

C7_Witness ==
    /\ last.op = "install"
    /\ last.sig = "missing"
    /\ last.status = 400
    /\ DOMAIN sessions # {}

\* C8: an /install with a valid signature adds one entry to the store, under a
\* nonce not used before, holding the request's user, domain and timestamp; the
\* entries already there are unchanged; the target it answers with carries
\* state=<that nonce> and client_id=API_KEY.
C8_InstallAddsOneEntry ==
    [][(last'.op = "install" /\ last'.sig = "valid")
          => /\ last'.nonce \notin DOMAIN sessions \cup IssuedNonces
             /\ DOMAIN sessions' = DOMAIN sessions \cup {last'.nonce}
             /\ \A k \in DOMAIN sessions : sessions'[k] = sessions[k]
             /\ sessions'[last'.nonce] = [user |-> Get(last'.query, "user"),
                                          domain |-> Get(last'.query, "domain"),
                                          timestamp |-> Get(last'.query, "timestamp")]
             /\ last'.status \in {200, 302}
             /\ Contains(last'.body, "&state=" \o last'.nonce)
             /\ Contains(last'.body, "client_id=" \o API_KEY \o "&")]_vars

C8_Witness ==
    /\ last.op = "install"
    /\ last.sig = "valid"
    /\ Cardinality(DOMAIN sessions) = 2
    /\ last.nonce \in DOMAIN sessions

\* C9: a /callback without the nonce field, or with a nonce that is no key of the
\* store, is answered 400, leaves the store unchanged and sends neither the token
\* request nor the webhook post.
C9_UnknownNonceIsRejected ==
    [][(last'.op = "callback" /\ (last'.nonce = Undefined \/ last'.nonce \notin DOMAIN sessions))
          => /\ last'.status = 400
             /\ sessions' = sessions
             /\ last'.call = NoCall
             /\ last'.post = NoData]_vars

\* C10: verifyHmac on parameters with the signature computed over them with
\* secret S returns true when called with S and false when called with another
\* secret.
C10_VerifyRoundTrip ==
    (vstage = "signed" /\ vresult # "none") => (vresult = "true" <=> vkey = vsecret)

C10_Witness ==
    /\ vstage = "signed"
    /\ vresult = "true"
    /\ Len(vquery) = MaxParams + 1

-----------------------------------------------------------------------------
(* C11..C20                                                                *)

\* C11: when one parameter other than the signature is removed from a signed
\* parameter set, or the value of one such parameter is changed, verifyHmac
\* against the original signature returns false, whatever secret it is called
\* with.
C11_TamperIsDetected ==
    (vstage = "tampered" /\ vresult # "none") => vresult = "false"

C11_Witness ==
    /\ vstage = "tampered"
    /\ vresult = "false"
    /\ vkey = vsecret
    /\ Len(vquery) = MaxParams + 1

\* C12: the same properties supplied in another insertion order give the same
\* message and the same result of verifyHmac.
C12_OrderIndependent ==
    [][vstage' = "permuted" /\ vstage = "signed"
          => /\ message(vquery') = message(vquery)
             /\ verifyHmac(vquery', vkey) = verifyHmac(vquery, vkey)
             /\ verifyHmac(vquery, vkey) = (vkey = vsecret)]_vars

C12_Witness ==
    /\ vstage = "permuted"
    /\ vresult = "true"
    /\ Len(vquery) = MaxParams + 1
    /\ vquery[1][1] = "hmac"

\* What the client can tell a response by.
Reply(step) == <<step.status, step.body>>

\* What the handler of the step taken last would have answered had its token
\* request failed.
ExchangeFailureReply ==
    Reply(afterExchange([pc |-> "exchange", nonce |-> last.nonce, tokenUrl |-> Undefined,
                         tokenData |-> NoData, storeData |-> NoData], sessions, FALSE, NoData))

\* C13: the failure kinds can be told apart by status and message; in particular
\* a /callback whose webhook post failed after a successful token exchange is not
\* answered with the status and message of a failed token exchange.
C13_PersistenceFailureIsDistinct ==
    (last.op = "persisted" /\ ~last.ok /\ last.nonce \in IssuedNonces)
        => (last.status = 500 /\ Reply(last) # ExchangeFailureReply)

\* C14: a /callback whose nonce field is absent or is no key of the store is
\* answered with the 400 of the nonce check and verifyHmac is not called for it,
\* whether or not its signature would verify.
C14_LookupBeforeVerification ==
    (last.op = "callback" /\ (last.nonce = Undefined \/ last.nonce \notin DOMAIN sessions))
        => (UnknownNonceReply(last) /\ last.hmacCheck = "none")

\* C15: while a /callback handler is suspended at the token request or at the
\* webhook post, its nonce is not a key of the store.
C15_NonceRemovedBeforeOutboundCalls ==
    \A req \in BagToSet(pending) : req.nonce \notin DOMAIN sessions

\* A handler that sent the token request for the nonce has not answered yet.
ExchangeIssuedFor(nonce) == \E req \in BagToSet(pending) : req.nonce = nonce

\* A handler that posted a record with the nonce has not answered yet.
RecordForwardedFor(nonce) ==
    \E req \in BagToSet(pending) : req.pc = "persist" /\ req.storeData.nonce = nonce

\* C16: for an issued nonce at most one token request is sent and at most one
\* record is posted to the webhook: no handler sends the token request for a
\* nonce for which another handler has sent it, and none posts a record with a
\* nonce with which another handler has posted one.
C16_AtMostOneExchangeAndRecord ==
    [][\A nonce \in IssuedNonces :
          /\ (last'.op = "callback" /\ last'.nonce = nonce /\ last'.call # NoCall)
                => ~ExchangeIssuedFor(nonce)
          /\ (last'.op = "exchanged" /\ last'.nonce = nonce /\ last'.post # NoData)
                => ~RecordForwardedFor(nonce)]_vars

\* The callbacks the authorization server sends back: correctly signed, with the
\* nonce of the authorization URL in the field `state`.
ReturnedWithState(nonce) ==
    {request \in CallbackRequests :
        request.sig = "valid" /\ Get(request.query, "state") = nonce}

\* C17: in each variant, a correctly signed /callback that carries in `state` a
\* nonce /install stored (and put in the authorization URL as state) is not
\* answered with the 400 of the nonce check.
C17_StateRoundTrips ==
    [][\A nonce \in DOMAIN sessions : \A request \in ReturnedWithState(nonce) :
          CallbackStart(request) => ~UnknownNonceReply(last')]_vars

\* The context /install stored under an issued nonce.
StoredBy(nonce) == issued[NonceIndex(nonce)]

\* C18: every record posted to the webhook carries a nonce drawn by an earlier
\* /install whose signature verified, with the user and domain that /install
\* stored; a handler that resumes from the token request when the entry is not
\* in the store posts nothing and answers 500.
C18_NoPersistenceWithoutInstall ==
    /\ last.post # NoData
          => /\ last.post.nonce \in IssuedNonces
             /\ last.post.user = StoredBy(last.post.nonce).user
             /\ last.post.domain = StoredBy(last.post.nonce).domain
    /\ (last.op = "exchanged" /\ last.ok /\ last.nonce \notin DOMAIN sessions)
          => (last.status = 500 /\ last.post = NoData)

\* C19: the domain in a record posted to the webhook is the domain whose token
\* endpoint the handler sent its token request to, for a correctly signed
\* callback with an issued nonce.
C19_RecordDomainIsExchangeDomain ==
    \A req \in BagToSet(pending) :
        (req.pc = "persist" /\ req.nonce \in IssuedNonces)
            => req.tokenUrl = tokenUrl(req.storeData.domain)

\* C20: a /callback is answered 200 only when its nonce had been stored by
\* /install, its signature verified, and its token request and its webhook post
\* succeeded; and when it is answered 200 the nonce check no longer finds its
\* nonce, so that a /callback presenting it afterwards is answered 400.
C20_SuccessOnlyAfterAllStepsAndConsumes ==
    (last.op \in {"callback", "exchanged", "persisted"} /\ last.status = 200)
        => /\ last.op = "persisted"
           /\ last.ok
           /\ last.tokenData \in TokenResponses
           /\ last.post # NoData
           /\ last.nonce \in IssuedNonces
           /\ last.nonce \notin DOMAIN sessions
           /\ ~nonceKnown(sessions, last.nonce)

====
